---------------------------- MODULE Spec2Model ----------------------------
(***************************************************************************)
(* Model of accountancy/_payment.py: the line classifier                   *)
(* (_TableRow.parse_line), the section/table scanner                       *)
(* (_filter_payment_section, _parse_payment_table), the receipt assembler  *)
(* (_PaymentTableParser) and parse_payment.                                *)
(*                                                                         *)
(* A text is a sequence of characters.  ASCII characters stand for         *)
(* themselves; a non-ASCII character of the source is written as the name  *)
(* of its code point ("U51FA" is U+51FA).  An Optional value is a sequence *)
(* of length 0 (None) or 1.  A Python exception leaving a method is the    *)
(* field raised of the assembler and pc = "raised" of the program.         *)
(* logger.debug output is not modelled: no f-string of a debug call can    *)
(* raise and nothing reads it.                                             *)
(***************************************************************************)
EXTENDS Integers, Sequences, FiniteSets, TLC

VARIABLES
    year,        \* parse_payment argument
    month,       \* parse_payment argument
    line,        \* the line read last: text and 1-based line_number
    in_section,  \* _filter_payment_section: "no", "yes", or "ended" (returned)
    state,       \* _parse_payment_table: 'outer', 'header', 'body'
    tables,      \* _parse_payment_table: tables
    table,       \* _parse_payment_table: table (the rows of the current table)
    log,         \* the records passed to logger.error / logger.warning
    pc,          \* position in parse_payment
    ti,          \* index of the table being assembled
    ri,          \* number of rows of that table already pushed
    parser,      \* the _PaymentTableParser of the current table
    receipts,    \* parse_payment: receipts
    results,     \* history: what parser.result() returned, per table
    input,       \* history (SpecRows, SpecRound): the row texts read
    sinceBad     \* history: an unexpected row was seen and no header line since

vars == <<year, month, line, in_section, state, tables, table, log, pc,
          ti, ri, parser, receipts, results, input, sinceBad>>

-----------------------------------------------------------------------------
(* Bounds *)

MaxLines == 8
MaxRows == 4

-----------------------------------------------------------------------------
(* Characters, int() and format() *)

DigitChars == <<"0", "1", "2", "3", "4", "5", "6", "7", "8", "9">>

IsDigit(c) == \E d \in 1..10 : DigitChars[d] = c

DigitValue(c) == (CHOOSE d \in 1..10 : DigitChars[d] = c) - 1

\* s[i], or "" past the end of s (no character is "")
At(s, i) == IF i \in 1..Len(s) THEN s[i] ELSE ""

RECURSIVE ParseNat(_)
\* int() of a non-empty run of [0-9]
ParseNat(s) ==
    IF s = <<>> THEN 0
    ELSE 10 * ParseNat(SubSeq(s, 1, Len(s) - 1)) + DigitValue(s[Len(s)])

\* int() of -?[0-9]+
ParseInt(s) ==
    IF At(s, 1) = "-" THEN 0 - ParseNat(SubSeq(s, 2, Len(s))) ELSE ParseNat(s)

RECURSIVE FormatNat(_)
FormatNat(n) ==
    IF n < 10 THEN <<DigitChars[n + 1]>>
    ELSE FormatNat(n \div 10) \o <<DigitChars[(n % 10) + 1]>>

\* f'{n}'
FormatInt(n) == IF n < 0 THEN <<"-">> \o FormatNat(0 - n) ELSE FormatNat(n)

\* f'{n:02}'
Format02(n) ==
    LET s == FormatInt(n) IN IF Len(s) < 2 THEN <<"0">> \o s ELSE s

-----------------------------------------------------------------------------
(* Receipt *)

DaysInMonth(y, m) ==
    IF m \in {4, 6, 9, 11} THEN 30
    ELSE IF m # 2 THEN 31
    ELSE IF (y % 4 = 0 /\ y % 100 # 0) \/ y % 400 = 0 THEN 29
    ELSE 28

\* Receipt.datetime does not raise ValueError
IsValidDatetime(r) ==
    /\ r.year \in 1..9999
    /\ r.month \in 1..12
    /\ r.day >= 1 /\ r.day <= DaysInMonth(r.year, r.month)
    /\ r.hour \in 0..23
    /\ r.minute \in 0..59

\* a.datetime < b.datetime
DatetimeLess(a, b) ==
    LET ka == <<a.year, a.month, a.day, a.hour, a.minute>>
        kb == <<b.year, b.month, b.day, b.hour, b.minute>>
    IN \E i \in 1..5 : ka[i] < kb[i] /\ \A j \in 1..(i - 1) : ka[j] = kb[j]

ToTableRows(r) ==
    [i \in 1..Len(r.items) |->
        IF i = 1
        THEN <<"|">> \o FormatInt(r.day)
             \o <<"|">> \o Format02(r.hour) \o <<":">> \o Format02(r.minute)
             \o <<"|">> \o r.store
             \o <<"|">> \o r.items[i].name
             \o <<"|">> \o FormatInt(r.items[i].price) \o <<"|">>
        ELSE <<"|", "|", "|", "|">> \o r.items[i].name
             \o <<"|">> \o FormatInt(r.items[i].price) \o <<"|">>]

LastLineNumber(r) == r.line_number + Len(r.items) - 1

-----------------------------------------------------------------------------
(* _TableRow.parse_line *)

RECURSIVE DigitRun(_, _)
\* length of the longest run of [0-9] of s from index i
DigitRun(s, i) == IF IsDigit(At(s, i)) THEN 1 + DigitRun(s, i + 1) ELSE 0

RECURSIVE CellRun(_, _)
\* length of the longest run of [^\|] of s from index i
CellRun(s, i) ==
    IF i \in 1..Len(s) /\ s[i] # "|" THEN 1 + CellRun(s, i + 1) ELSE 0

IsTriplePipe(s, i) == At(s, i) = "|" /\ At(s, i + 1) = "|" /\ At(s, i + 2) = "|"

\* The first group of the expression, matched at index 1.  The two
\* alternatives exclude each other on the second character and every run is
\* followed by a character outside its class, so backtracking finds no
\* other match than the greedy one.  end is the index after the group.
MatchKey(s) ==
    LET d == DigitRun(s, 2)
        j == 2 + d
        c == CellRun(s, j + 7)
    IN IF /\ At(s, 1) = "|" /\ d >= 1
          /\ At(s, j) = "|"
          /\ IsDigit(At(s, j + 1)) /\ IsDigit(At(s, j + 2))
          /\ At(s, j + 3) = ":"
          /\ IsDigit(At(s, j + 4)) /\ IsDigit(At(s, j + 5))
          /\ At(s, j + 6) = "|" /\ c >= 1
       THEN [ok |-> TRUE, real |-> TRUE, end |-> j + 7 + c,
             day |-> ParseNat(SubSeq(s, 2, j - 1)),
             hour |-> ParseNat(SubSeq(s, j + 1, j + 2)),
             minute |-> ParseNat(SubSeq(s, j + 4, j + 5)),
             store |-> SubSeq(s, j + 7, j + 6 + c)]
       ELSE [ok |-> IsTriplePipe(s, 1), real |-> FALSE, end |-> 4,
             day |-> 0, hour |-> 0, minute |-> 0, store |-> <<>>]

\* mutant of MatchItem: the name is cut to its first character
MatchItemShortName(s, i) ==
    LET c == CellRun(s, i + 1)
        k == i + 1 + c
        p == IF At(s, k + 1) = "-" THEN k + 2 ELSE k + 1
        d == DigitRun(s, p)
    IN IF /\ At(s, i) = "|" /\ c >= 1
          /\ At(s, k) = "|" /\ d >= 1
          /\ At(s, p + d) = "|"
       THEN [ok |-> TRUE, real |-> TRUE,
             name |-> SubSeq(s, i + 1, i + 1),
             price |-> ParseInt(SubSeq(s, k + 1, p + d - 1))]
       ELSE [ok |-> IsTriplePipe(s, i), real |-> FALSE,
             name |-> <<>>, price |-> 0]

\* The second group of the expression, matched at index i.
MatchItem(s, i) ==
    LET c == CellRun(s, i + 1)
        k == i + 1 + c
        p == IF At(s, k + 1) = "-" THEN k + 2 ELSE k + 1
        d == DigitRun(s, p)
    IN IF /\ At(s, i) = "|" /\ c >= 1
          /\ At(s, k) = "|" /\ d >= 1
          /\ At(s, p + d) = "|"
       THEN [ok |-> TRUE, real |-> TRUE,
             name |-> SubSeq(s, i + 1, k - 1),
             price |-> ParseInt(SubSeq(s, k + 1, p + d - 1))]
       ELSE [ok |-> IsTriplePipe(s, i), real |-> FALSE,
             name |-> <<>>, price |-> 0]

\* re.match(...) is not None: the expression is anchored at the start of
\* the text only
RowMatches(text) ==
    LET k == MatchKey(text) IN k.ok /\ MatchItem(text, k.end).ok

\* the row of the two matched groups
RowOfMatch(k, it, line_number) ==
    [key |-> IF k.real
             THEN <<[day |-> k.day, hour |-> k.hour,
                     minute |-> k.minute, store |-> k.store,
                     line_number |-> line_number]>>
             ELSE <<>>,
     item |-> IF it.real
              THEN <<[name |-> it.name, price |-> it.price,
                      line_number |-> line_number]>>
              ELSE <<>>,
     line_number |-> line_number]

\* the row, or None if the second group does not match
ParseAfterItem(k, it, line_number) ==
    IF ~it.ok THEN <<>> ELSE <<RowOfMatch(k, it, line_number)>>

\* the second group matched where the first group k ends
ParseAfterKey(k, text, line_number) ==
    IF ~k.ok THEN <<>>
    ELSE ParseAfterItem(k, MatchItem(text, k.end), line_number)

\* <<>> for None, <<row>> for a row
ParseLine(text, line_number) ==
    ParseAfterKey(MatchKey(text), text, line_number)

IsEmptyRow(row) == row.key = <<>> /\ row.item = <<>>

-----------------------------------------------------------------------------
(* Diagnostics *)

\* One logger.error / logger.warning call: what it reports, the row text it
\* quotes (<<>> if none) and the line number it names (0 if none).
LogRecord(level, what, text, number) ==
    [level |-> level, what |-> what, text |-> text, line |-> number]

\* logger.<level>(f'<what>: {_first_position_message(receipt)}') on the
\* assembler p: to_table_rows()[0] raises IndexError when the receipt has no
\* items, before the logger is called.
LogFirstPosition(p, level, what, receipt) ==
    IF ToTableRows(receipt) = <<>>
    THEN [p EXCEPT !.raised = TRUE]
    ELSE [p EXCEPT !.logger = Append(@,
              LogRecord(level, what, ToTableRows(receipt)[1],
                        receipt.line_number))]

\* logger.warning(f'need an empty row after:
\* {_last_position_message(self._receipts[-1])}'): _receipts[-1] raises
\* IndexError on an empty list, to_table_rows()[-1] on a receipt without items.
LogLastPosition(p) ==
    IF p.receipts = <<>> THEN [p EXCEPT !.raised = TRUE]
    ELSE LET receipt == p.receipts[Len(p.receipts)]
             rows == ToTableRows(receipt)
         IN IF rows = <<>> THEN [p EXCEPT !.raised = TRUE]
            ELSE [p EXCEPT !.logger = Append(@,
                      LogRecord("warning", "need an empty row after",
                                rows[Len(rows)], LastLineNumber(receipt)))]

-----------------------------------------------------------------------------
(* _PaymentTableParser *)

\* mutant of NewParser: the assembler starts as one whose last row was empty
NewParserAfterEmpty(y, m, logger) ==
    [year |-> y, month |-> m, logger |-> logger,
     receipts |-> <<>>,
     is_last_empty |-> TRUE,
     is_before_key_empty |-> FALSE,
     table_key |-> <<>>,
     table_items |-> <<>>,
     raised |-> FALSE]

NewParser(y, m, logger) ==
    [year |-> y, month |-> m, logger |-> logger,
     receipts |-> <<>>,
     is_last_empty |-> FALSE,
     is_before_key_empty |-> FALSE,
     table_key |-> <<>>,
     table_items |-> <<>>,
     raised |-> FALSE]

\* the candidate built from the pending key and items
Candidate(p) ==
    [year |-> p.year, month |-> p.month,
     day |-> p.table_key[1].day,
     hour |-> p.table_key[1].hour,
     minute |-> p.table_key[1].minute,
     store |-> p.table_key[1].store,
     items |-> p.table_items,
     line_number |-> p.table_key[1].line_number]

\* "validate order"
CheckOrder(p, receipt) ==
    IF p.receipts # <<>> /\ DatetimeLess(receipt, p.receipts[Len(p.receipts)])
    THEN LogFirstPosition(p, "warning", "wrong order", receipt)
    ELSE p

\* "validate empty row"
CheckEmptyRow(p, receipt) ==
    IF p.receipts # <<>>
    THEN IF p.receipts[Len(p.receipts)].day < receipt.day
         THEN IF ~p.is_before_key_empty
              THEN LogFirstPosition(p, "warning",
                                    "need an empty row before", receipt)
              ELSE p
         ELSE IF p.is_before_key_empty
              THEN LogFirstPosition(p, "warning",
                                    "need not an empty row before", receipt)
              ELSE p
    ELSE IF ~p.is_before_key_empty
         THEN LogFirstPosition(p, "warning",
                               "need an empty row before", receipt)
         ELSE p

\* mutant of AppendReceipt: the receipt is put at the front of the list
AppendReceiptFront(p, receipt) ==
    IF p.raised THEN p ELSE [p EXCEPT !.receipts = <<receipt>> \o @]

\* "add to receipts", unless a warning raised
AppendReceipt(p, receipt) ==
    IF p.raised THEN p ELSE [p EXCEPT !.receipts = Append(@, receipt)]

\* "validate empty row", unless "validate order" raised
CheckEmptyRowNext(p, receipt) ==
    IF p.raised THEN p ELSE CheckEmptyRow(p, receipt)

\* _push_receipt from "validate datetime" on; p has its pending key and
\* items reset already
ValidateAndAppend(p, receipt) ==
    IF ~IsValidDatetime(receipt)
    THEN LogFirstPosition(p, "error", "invalid datetime", receipt)
    ELSE AppendReceipt(CheckEmptyRowNext(CheckOrder(p, receipt), receipt),
                       receipt)

PushReceipt(p) ==
    IF p.table_key = <<>> THEN p
    ELSE ValidateAndAppend([p EXCEPT !.table_key = <<>>, !.table_items = <<>>],
                           Candidate(p))

\* mutant of WarnConsecutive: the warning is given for an empty row that
\* follows a row that is not empty
WarnFirstEmpty(p, row) ==
    IF ~p.is_last_empty
    THEN [p EXCEPT !.logger = Append(@,
             LogRecord("warning", "consective empty row", <<>>,
                       row.line_number))]
    ELSE p

\* push of an empty row: the warning
WarnConsecutive(p, row) ==
    IF p.is_last_empty
    THEN [p EXCEPT !.logger = Append(@,
             LogRecord("warning", "consective empty row", <<>>,
                       row.line_number))]
    ELSE p

\* push of an empty row: after _push_receipt
MarkLastEmpty(p) == IF p.raised THEN p ELSE [p EXCEPT !.is_last_empty = TRUE]

\* push of an empty row
PushEmpty(p, row) == MarkLastEmpty(PushReceipt(WarnConsecutive(p, row)))

\* push of a row that is not empty: after the _push_receipt of a key row
AdoptRow(p, row) ==
    IF p.raised THEN p
    ELSE [p EXCEPT
            !.is_before_key_empty =
                IF row.key # <<>> THEN p.is_last_empty ELSE @,
            !.table_key = IF row.key # <<>> THEN row.key ELSE @,
            !.table_items =
                IF row.item # <<>> THEN Append(@, row.item[1]) ELSE @,
            !.is_last_empty = FALSE]

\* push of a row with a key, an item or both
PushFilled(p, row) ==
    AdoptRow(IF row.key # <<>> THEN PushReceipt(p) ELSE p, row)

Push(p, row) == IF IsEmptyRow(row) THEN PushEmpty(p, row) ELSE PushFilled(p, row)

\* result() after _push_receipt
CheckLastEmpty(p) ==
    IF p.raised THEN p
    ELSE IF ~p.is_last_empty THEN LogLastPosition(p)
    ELSE p

\* result(): the assembler after the call; it returns p.receipts unless raised
Result(p) == CheckLastEmpty(PushReceipt(p))

-----------------------------------------------------------------------------
(* Texts *)

\* '## ' U+51FA U+8CBB
SectionText == <<"#", "#", " ", "U51FA", "U8CBB">>

\* header: |U+65E5|U+6642 U+523B|U+5E97|U+5546 U+54C1|U+4FA1 U+683C|
HeaderText ==
    <<"|", "U65E5", "|", "U6642", "U523B", "|", "U5E97",
      "|", "U5546", "U54C1", "|", "U4FA1", "U683C", "|">>

\* alignment: |--:|--:|:--|:--|--:|
AlignmentText ==
    <<"|", "-", "-", ":", "|", "-", "-", ":", "|", ":", "-", "-",
      "|", ":", "-", "-", "|", "-", "-", ":", "|">>

ExampleStore ==
    <<"E", "x", "a", "m", "p", "l", "e", " ", "S", "t", "o", "r", "e">>
Widget == <<"W", "i", "d", "g", "e", "t">>
Gadget == <<"G", "a", "d", "g", "e", "t">>

\* |15|09:30|Example Store|Widget|500|
RowWidget ==
    <<"|", "1", "5", "|", "0", "9", ":", "3", "0", "|">> \o ExampleStore
    \o <<"|">> \o Widget \o <<"|", "5", "0", "0", "|">>
\* ||||Gadget|300|
RowGadget == <<"|", "|", "|", "|">> \o Gadget \o <<"|", "3", "0", "0", "|">>
\* ||||||
RowEmpty == <<"|", "|", "|", "|", "|", "|">>
\* |29|10:00|T|||     a key without an item; no 29th in February 2023
RowKeyOnly == <<"|", "2", "9", "|", "1", "0", ":", "0", "0", "|", "T", "|", "|", "|">>
\* |15|08:05|S|Tea|-3|     the day of RowWidget, an earlier time
RowEarlier ==
    <<"|", "1", "5", "|", "0", "8", ":", "0", "5", "|", "S",
      "|", "T", "e", "a", "|", "-", "3", "|">>
\* |31|09:30|S|Pen|7|     no 31st in February or April
RowDay31 ==
    <<"|", "3", "1", "|", "0", "9", ":", "3", "0", "|", "S",
      "|", "P", "e", "n", "|", "7", "|">>
\* |15|24:00|S|Ink|1|     no hour 24
RowHour24 ==
    <<"|", "1", "5", "|", "2", "4", ":", "0", "0", "|", "S",
      "|", "I", "n", "k", "|", "1", "|">>
\* |30|07:00|S|Jam|2|     a day after RowKeyOnly; April has it, February not
RowDay30 ==
    <<"|", "3", "0", "|", "0", "7", ":", "0", "0", "|", "S",
      "|", "J", "a", "m", "|", "2", "|">>
\* # memo
HeadingMemo == <<"#", " ", "m", "e", "m", "o">>
\* ### x                  a heading of level 3
HeadingThree == <<"#", "#", "#", " ", "x">>
\* memo                   a line that is no row and no heading
TextMemo == <<"m", "e", "m", "o">>

\* the rows a table is drawn from
RowTexts ==
    {RowWidget, RowGadget, RowEmpty, RowKeyOnly, RowEarlier, RowDay31,
     RowHour24, RowDay30}

\* the lines a file is drawn from
LineTexts ==
    {SectionText, HeaderText, AlignmentText, <<>>, RowWidget, RowEarlier}

\* the lines a file is drawn from when only the scanner runs: with the
\* section heading followed by one more character, and RowWidget followed
\* by "xyz"
ScanTexts ==
    {SectionText, SectionText \o <<"x">>, HeaderText, AlignmentText, <<>>,
     TextMemo, RowWidget, RowWidget \o <<"x", "y", "z">>, HeadingMemo,
     HeadingThree}

\* the (year, month) a file is drawn from: a leap and a common February, and
\* a month of 30 days
YearMonths == {<<2023, 2>>, <<2024, 2>>, <<2023, 4>>}

-----------------------------------------------------------------------------
(* _filter_payment_section and _parse_payment_table *)

IsPrefix(p, s) == Len(p) <= Len(s) /\ SubSeq(s, 1, Len(p)) = p

\* re.match(r'## <U+51FA><U+8CBB>', line.text): anchored at the start only
IsSectionHeading(text) == IsPrefix(SectionText, text)

\* line.text.startswith('#')
StartsWithHash(text) == At(text, 1) = "#"

\* mutant of HeaderNext: any row after the table header opens the body
HeaderNextBody(text) == "body"

\* mutant of HeaderNext: an unexpected row sends the scanner back to 'outer'
HeaderNextOuter(text) == IF text = AlignmentText THEN "body" ELSE "outer"

\* case 'header': the next state
HeaderNext(text) == IF text = AlignmentText THEN "body" ELSE "header"

\* mutant of BodyNext: a row that fails classification is skipped
BodyNextSkip(text, row) == IF text # <<>> THEN "body" ELSE "outer"

\* case 'body': the next state; row is the result of parse_line
BodyNext(text, row) == IF text # <<>> /\ row # <<>> THEN "body" ELSE "outer"

\* case 'outer': the next state
OuterNext(text) == IF text = HeaderText THEN "header" ELSE "outer"

\* "if table: tables.append(table)" after the loop
FinalTables == IF table # <<>> THEN Append(tables, table) ELSE tables

-----------------------------------------------------------------------------
(* parse_payment *)

\* mutant of Extend: the list is assigned instead of extended
ExtendAssign(rs, new) == new

\* receipts.extend(new)
Extend(rs, new) == rs \o new

\* mutant of InsertByDatetime: r is placed before the elements of its own
\* datetime (a sort that is not stable)
InsertBeforeEqual(sorted, r) ==
    LET n == Len(sorted)
        k == IF \E i \in 1..n : ~DatetimeLess(sorted[i], r)
             THEN CHOOSE i \in 1..n :
                      /\ ~DatetimeLess(sorted[i], r)
                      /\ \A j \in 1..(i - 1) : DatetimeLess(sorted[j], r)
             ELSE n + 1
    IN SubSeq(sorted, 1, k - 1) \o <<r>> \o SubSeq(sorted, k, n)

\* r placed after every element that is not later than it
InsertByDatetime(sorted, r) ==
    LET n == Len(sorted)
        k == IF \E i \in 1..n : DatetimeLess(r, sorted[i])
             THEN CHOOSE i \in 1..n :
                      /\ DatetimeLess(r, sorted[i])
                      /\ \A j \in 1..(i - 1) : ~DatetimeLess(r, sorted[j])
             ELSE n + 1
    IN SubSeq(sorted, 1, k - 1) \o <<r>> \o SubSeq(sorted, k, n)

RECURSIVE SortByDatetime(_)
\* receipts.sort(key=lambda receipt: receipt.datetime): list.sort is stable
SortByDatetime(rs) ==
    IF rs = <<>> THEN <<>>
    ELSE InsertByDatetime(SortByDatetime(SubSeq(rs, 1, Len(rs) - 1)),
                          rs[Len(rs)])

\* no line has been read
NoLine == [text |-> <<>>, line_number |-> 0]

-----------------------------------------------------------------------------
(* Spec: parse_payment on a file of at most MaxLines lines, read line by    *)
(* line; the list is read once, front to back, so each line is chosen when  *)
(* it is read.                                                              *)

Init ==
    /\ \E ym \in YearMonths : year = ym[1] /\ month = ym[2]
    /\ line = NoLine
    /\ in_section = "no"
    /\ state = "outer"
    /\ tables = <<>>
    /\ table = <<>>
    /\ log = <<>>
    /\ pc = "scan"
    /\ ti = 1
    /\ ri = 0
    /\ parser = NewParser(year, month, <<>>)
    /\ receipts = <<>>
    /\ results = <<>>
    /\ input = <<>>
    /\ sinceBad = FALSE

NextLine(text) == [text |-> text, line_number |-> line.line_number + 1]

\* a line before the section, drawn from texts: not yielded
SkipLineOf(texts, max) ==
    /\ pc = "scan" /\ in_section = "no" /\ line.line_number < max
    /\ \E text \in texts :
        /\ line' = NextLine(text)
        /\ in_section' = IF IsSectionHeading(text) THEN "yes" ELSE "no"
    /\ UNCHANGED <<year, month, state, tables, table, log, pc, ti, ri,
                   parser, receipts, results, input, sinceBad>>

\* the loop of _parse_payment_table is over: the last table is kept if it
\* has rows and parse_payment goes on to the tables
EndScan ==
    /\ tables' = FinalTables
    /\ table' = <<>>
    /\ pc' = "tables"
    /\ UNCHANGED <<year, month, state, log, ti, ri, parser, receipts,
                   results, input, sinceBad>>

\* a line of the section that starts with '#': the generator returns
EndSectionOf(texts, max) ==
    /\ pc = "scan" /\ in_section = "yes" /\ line.line_number < max
    /\ \E text \in texts :
        /\ StartsWithHash(text)
        /\ line' = NextLine(text)
    /\ in_section' = "ended"
    /\ EndScan

\* the list of lines is exhausted
EndOfInput ==
    /\ pc = "scan" /\ in_section # "ended"
    /\ UNCHANGED <<line, in_section>>
    /\ EndScan

\* case 'body'
ScanBodyOf(texts, max) ==
    /\ pc = "scan" /\ in_section = "yes" /\ line.line_number < max
    /\ state = "body"
    /\ \E text \in texts :
        /\ ~StartsWithHash(text)
        /\ line' = NextLine(text)
        /\ LET row == ParseLine(text, line'.line_number)
           IN /\ state' = BodyNext(text, row)
              /\ IF text # <<>> /\ row # <<>>
                 THEN /\ table' = Append(table, row[1])
                      /\ UNCHANGED <<tables, log>>
                 ELSE /\ tables' = Append(tables, table)
                      /\ table' = <<>>
                      /\ log' = IF text # <<>>
                                THEN Append(log, LogRecord("error",
                                         "failed to parse", text,
                                         line'.line_number))
                                ELSE log
    /\ UNCHANGED <<year, month, in_section, pc, ti, ri, parser, receipts,
                   results, input, sinceBad>>

\* case 'header'
ScanHeaderOf(texts, max) ==
    /\ pc = "scan" /\ in_section = "yes" /\ line.line_number < max
    /\ state = "header"
    /\ \E text \in texts :
        /\ ~StartsWithHash(text)
        /\ line' = NextLine(text)
        /\ state' = HeaderNext(text)
        /\ log' = IF text = AlignmentText THEN log
                  ELSE Append(log, LogRecord("error", "unexpected row",
                                             text, 0))
        /\ sinceBad' = IF text = AlignmentText THEN sinceBad
                       ELSE text # HeaderText
    /\ UNCHANGED <<year, month, in_section, tables, table, pc, ti, ri,
                   parser, receipts, results, input>>

\* case 'outer'
ScanOuterOf(texts, max) ==
    /\ pc = "scan" /\ in_section = "yes" /\ line.line_number < max
    /\ state = "outer"
    /\ \E text \in texts :
        /\ ~StartsWithHash(text)
        /\ line' = NextLine(text)
        /\ state' = OuterNext(text)
        /\ sinceBad' = IF text = HeaderText THEN FALSE ELSE sinceBad
    /\ UNCHANGED <<year, month, in_section, tables, table, log, pc, ti, ri,
                   parser, receipts, results, input>>

\* the scanner steps of a file of at most MaxLines lines drawn from LineTexts
SkipLine == SkipLineOf(LineTexts, MaxLines)

EndSection == EndSectionOf(LineTexts \cup {HeadingMemo}, MaxLines)

ScanBody == ScanBodyOf(LineTexts, MaxLines)

ScanHeader == ScanHeaderOf(LineTexts, MaxLines)

ScanOuter == ScanOuterOf(LineTexts, MaxLines)

\* parser = _PaymentTableParser(year, month, logger)
StartTable ==
    /\ pc = "tables" /\ ti <= Len(tables)
    /\ parser' = NewParser(year, month, log)
    /\ ri' = 0
    /\ pc' = "rows"
    /\ UNCHANGED <<year, month, line, in_section, state, tables, table, log,
                   ti, receipts, results, input, sinceBad>>

\* parser.push(row)
PushRow ==
    /\ pc = "rows" /\ ri < Len(tables[ti])
    /\ parser' = Push(parser, tables[ti][ri + 1])
    /\ ri' = IF parser'.raised THEN ri ELSE ri + 1
    /\ log' = parser'.logger
    /\ pc' = IF parser'.raised THEN "raised" ELSE "rows"
    /\ UNCHANGED <<year, month, line, in_section, state, tables, table, ti,
                   receipts, results, input, sinceBad>>

\* receipts.extend(parser.result())
TableResult ==
    /\ pc = "rows" /\ ri = Len(tables[ti])
    /\ parser' = Result(parser)
    /\ log' = parser'.logger
    /\ IF parser'.raised
       THEN /\ pc' = "raised"
            /\ UNCHANGED <<ti, receipts, results>>
       ELSE /\ pc' = "tables"
            /\ ti' = ti + 1
            /\ receipts' = Extend(receipts, parser'.receipts)
            /\ results' = Append(results, parser'.receipts)
    /\ UNCHANGED <<year, month, line, in_section, state, tables, table, ri,
                   input, sinceBad>>

\* receipts.sort(...); return receipts
SortReceipts ==
    /\ pc = "tables" /\ ti > Len(tables)
    /\ receipts' = SortByDatetime(receipts)
    /\ pc' = "done"
    /\ UNCHANGED <<year, month, line, in_section, state, tables, table, log,
                   ti, ri, parser, results, input, sinceBad>>

Next ==
    \/ SkipLine \/ EndSection \/ EndOfInput
    \/ ScanBody \/ ScanHeader \/ ScanOuter
    \/ StartTable \/ PushRow \/ TableResult \/ SortReceipts

Spec == Init /\ [][Next]_vars

-----------------------------------------------------------------------------
(* SpecScan: _parse_payment_table alone on a file of at most MaxScanLines   *)
(* lines drawn from ScanTexts.                                              *)

MaxScanLines == 8

InitScan ==
    /\ year = 2023 /\ month = 4
    /\ line = NoLine
    /\ in_section = "no"
    /\ state = "outer"
    /\ tables = <<>>
    /\ table = <<>>
    /\ log = <<>>
    /\ pc = "scan"
    /\ ti = 1
    /\ ri = 0
    /\ parser = NewParser(year, month, <<>>)
    /\ receipts = <<>>
    /\ results = <<>>
    /\ input = <<>>
    /\ sinceBad = FALSE

FilterSkip == SkipLineOf(ScanTexts, MaxScanLines)

FilterReturn == EndSectionOf(ScanTexts, MaxScanLines)

CaseBody == ScanBodyOf(ScanTexts, MaxScanLines)

CaseHeader == ScanHeaderOf(ScanTexts, MaxScanLines)

CaseOuter == ScanOuterOf(ScanTexts, MaxScanLines)

NextScan ==
    \/ FilterSkip \/ FilterReturn \/ EndOfInput
    \/ CaseBody \/ CaseHeader \/ CaseOuter

SpecScan == InitScan /\ [][NextScan]_vars

-----------------------------------------------------------------------------
(* SpecRows: one fresh assembler, at most MaxRows rows of one table pushed   *)
(* into it, then result().  Rows are numbered from 1.                        *)

InitRows ==
    /\ \E ym \in YearMonths : year = ym[1] /\ month = ym[2]
    /\ line = NoLine
    /\ in_section = "yes"
    /\ state = "body"
    /\ tables = <<>>
    /\ table = <<>>
    /\ log = <<>>
    /\ pc = "rows"
    /\ ti = 1
    /\ ri = 0
    /\ parser = NewParser(year, month, <<>>)
    /\ receipts = <<>>
    /\ results = <<>>
    /\ input = <<>>
    /\ sinceBad = FALSE

\* row = _TableRow.parse_line(line); table.append(row); parser.push(row)
TablePush ==
    /\ pc = "rows" /\ Len(table) < MaxRows
    /\ \E text \in RowTexts :
        /\ line' = NextLine(text)
        /\ input' = Append(input, text)
        /\ table' = Append(table, ParseLine(text, line'.line_number)[1])
        /\ parser' = Push(parser, table'[Len(table')])
    /\ ri' = IF parser'.raised THEN ri ELSE ri + 1
    /\ log' = parser'.logger
    /\ pc' = IF parser'.raised THEN "raised" ELSE "rows"
    /\ UNCHANGED <<year, month, in_section, state, tables, ti, receipts,
                   results, sinceBad>>

\* parser.result()
TableFinish ==
    /\ pc = "rows"
    /\ parser' = Result(parser)
    /\ log' = parser'.logger
    /\ IF parser'.raised
       THEN pc' = "raised" /\ UNCHANGED results
       ELSE pc' = "done" /\ results' = <<parser'.receipts>>
    /\ UNCHANGED <<year, month, line, in_section, state, tables, table, ti,
                   ri, receipts, input, sinceBad>>

NextRows == TablePush \/ TableFinish

SpecRows == InitRows /\ [][NextRows]_vars

-----------------------------------------------------------------------------
(* SpecRound: Receipt.to_table_rows() of one receipt, then                   *)
(* _TableRow.parse_line on each row.  The receipts are those whose fields    *)
(* the classifier can produce: a store and names without '|', not empty.     *)

MaxItems == 2

RoundItems ==
    {[name |-> n, price |-> p] : n \in {Widget, <<"a">>}, p \in {-3, 0, 500}}

RoundReceipts ==
    {[year |-> 2023, month |-> 4, day |-> d, hour |-> h, minute |-> m,
      store |-> st,
      items |-> [i \in 1..Len(its) |->
                    [name |-> its[i].name, price |-> its[i].price,
                     line_number |-> 6 + i]],
      line_number |-> 7] :
        d \in {5, 15}, h \in {0, 9, 23}, m \in {0, 30},
        st \in {ExampleStore, <<"S">>},
        its \in UNION {[1..n -> RoundItems] : n \in 0..MaxItems}}

InitRound ==
    /\ year = 2023 /\ month = 4
    /\ line = NoLine
    /\ in_section = "yes"
    /\ state = "body"
    /\ tables = <<>>
    /\ table = <<>>
    /\ log = <<>>
    /\ pc = "render"
    /\ ti = 1
    /\ ri = 0
    /\ parser = NewParser(year, month, <<>>)
    /\ \E r \in RoundReceipts : receipts = <<r>>
    /\ results = <<>>
    /\ input = <<>>
    /\ sinceBad = FALSE

\* rows = receipt.to_table_rows()
Render ==
    /\ pc = "render"
    /\ input' = ToTableRows(receipts[1])
    /\ pc' = "classify"
    /\ UNCHANGED <<year, month, line, in_section, state, tables, table, log,
                   ti, ri, parser, receipts, results, sinceBad>>

\* _TableRow.parse_line on the next row; table keeps what it returned
Classify ==
    /\ pc = "classify" /\ ri < Len(input)
    /\ line' = [text |-> input[ri + 1],
                line_number |-> receipts[1].line_number + ri]
    /\ table' = Append(table, ParseLine(line'.text, line'.line_number))
    /\ log' = IF RowMatches(line'.text) THEN log
              ELSE Append(log, LogRecord("error", "failed to parse",
                                         line'.text, line'.line_number))
    /\ ri' = ri + 1
    /\ UNCHANGED <<year, month, in_section, state, tables, pc, ti, parser,
                   receipts, results, input, sinceBad>>

NextRound == Render \/ Classify

SpecRound == InitRound /\ [][NextRound]_vars

-----------------------------------------------------------------------------
(* Helpers of the properties *)

Range(s) == {s[i] : i \in 1..Len(s)}

RECURSIVE Flatten(_)
\* the concatenation of a sequence of sequences
Flatten(ss) ==
    IF ss = <<>> THEN <<>>
    ELSE Flatten(SubSeq(ss, 1, Len(ss) - 1)) \o ss[Len(ss)]

Count(s, x) == Cardinality({i \in 1..Len(s) : s[i] = x})

SameMultiset(a, b) == \A x \in Range(a) \cup Range(b) : Count(a, x) = Count(b, x)

SameDatetime(a, b) == ~DatetimeLess(a, b) /\ ~DatetimeLess(b, a)

\* the key of row i of the table forms a real date/time with year and month
KeyIsValid(i) ==
    IsValidDatetime([year |-> year, month |-> month,
                     day |-> table[i].key[1].day,
                     hour |-> table[i].key[1].hour,
                     minute |-> table[i].key[1].minute])

KeyRows == {i \in 1..Len(table) : table[i].key # <<>>}

\* the rows from key row i up to, not including, the next key row or empty row
RowsOfKey(i) ==
    {j \in i..Len(table) :
        \A k \in (i + 1)..j : table[k].key = <<>> /\ ~IsEmptyRow(table[k])}

RECURSIVE ItemCells(_, _)
\* the item cells of rows i, i+1, ... of the table while they are in rows
ItemCells(rows, i) ==
    IF i \notin rows THEN <<>>
    ELSE table[i].item \o ItemCells(rows, i + 1)

\* SpecRows: the table is over, by a return or an exception
TableOver == pc \in {"done", "raised"}

-----------------------------------------------------------------------------
(* C1 (Spec) *)

\* C1: for every sequence of input lines and every year and month,
\* parse_payment returns: no exception leaves the scanner, an assembler or
\* the sort.
C1_NeverRaises == pc # "raised"

-----------------------------------------------------------------------------
(* C2 (SpecRows) *)

\* C2: once a table whose keys all form a real date/time has been pushed
\* and result() called, result() has returned as many receipts as the table
\* has rows with a key.
C2_ReceiptPerKeyRow ==
    (TableOver /\ \A i \in KeyRows : KeyIsValid(i))
        => (pc = "done" /\ Len(results[1]) = Cardinality(KeyRows))

-----------------------------------------------------------------------------
(* C3 (SpecRows) *)

\* C3: for a table whose keys all form a real date/time, every receipt
\* result() returns has as its items exactly the item cells of the rows from
\* its key row up to the next key row or empty row, in row order; no item
\* cell of an earlier row is among them.
C3_ItemsFromOwnRows ==
    (pc = "done" /\ \A i \in KeyRows : KeyIsValid(i))
        => \A k \in 1..Len(results[1]) :
              LET r == results[1][k]
              IN /\ r.line_number \in KeyRows
                 /\ r.items = ItemCells(RowsOfKey(r.line_number),
                                        r.line_number)

-----------------------------------------------------------------------------
(* C4 (Spec) *)

\* the receipts in the order in which the assemblers closed them
Encountered == Flatten(results)

EncounterIndex(r) == CHOOSE k \in 1..Len(Encountered) : Encountered[k] = r

\* C4: the list parse_payment returns is non-decreasing by (year, month,
\* day, hour, minute), and two receipts of equal timestamp are in the order
\* in which they were closed (table order, then closing order in the table).
C4_SortedAndStable ==
    pc = "done" =>
        \A i, j \in 1..Len(receipts) :
            i < j =>
                /\ ~DatetimeLess(receipts[j], receipts[i])
                /\ SameDatetime(receipts[i], receipts[j])
                     => EncounterIndex(receipts[i]) < EncounterIndex(receipts[j])

\* parse_payment has returned a list the sort had to reorder and that holds
\* two receipts of one timestamp
C4_Witness ==
    /\ pc = "done"
    /\ receipts # Encountered
    /\ \E i, j \in 1..Len(receipts) :
          i < j /\ SameDatetime(receipts[i], receipts[j])

-----------------------------------------------------------------------------
(* C5 (Spec) *)

\* C5: the receipts parse_payment returns are, as a multiset, the receipts
\* the assemblers of its tables returned, those of the first table together
\* with those of the second: the concatenation and the sort lose, duplicate
\* and add none.
C5_UnionOfTables ==
    pc = "done" => SameMultiset(receipts, Flatten(results))

\* parse_payment has returned for a section of two tables, each of which
\* closed a receipt
C5_Witness ==
    /\ pc = "done"
    /\ Len(results) = 2
    /\ results[1] # <<>> /\ results[2] # <<>>
    /\ Len(receipts) = Len(results[1]) + Len(results[2])

-----------------------------------------------------------------------------
(* C6 (SpecRound) *)

\* the name and price of each item, in order
NamesAndPrices(items) ==
    [i \in 1..Len(items) |-> <<items[i].name, items[i].price>>]

\* the rows parse_line returned
RoundRows == [i \in 1..Len(table) |-> table[i][1]]

\* C6: once every row of to_table_rows() has been classified, every row
\* parsed, the first row carries a key equal to the receipt's day, hour,
\* minute and store, and the item cells in order equal the receipt's items by
\* name and price; also for a receipt with no items.
C6_RoundTrip ==
    (pc = "classify" /\ ri = Len(input)) =>
        LET r == receipts[1]
        IN /\ \A i \in 1..Len(table) : table[i] # <<>>
           /\ Len(table) >= 1
           /\ RoundRows[1].key # <<>>
           /\ RoundRows[1].key[1].day = r.day
           /\ RoundRows[1].key[1].hour = r.hour
           /\ RoundRows[1].key[1].minute = r.minute
           /\ RoundRows[1].key[1].store = r.store
           /\ \A i \in 1..Len(table) : RoundRows[i].item # <<>>
           /\ NamesAndPrices([i \in 1..Len(table) |-> RoundRows[i].item[1]])
                  = NamesAndPrices(r.items)

-----------------------------------------------------------------------------
(* C7 (SpecRows) *)

\* row i carried a key that was adopted and is no longer pending
Flushed(i) ==
    /\ i \in KeyRows /\ i <= ri
    /\ ~(parser.table_key # <<>> /\ parser.table_key[1].line_number = i)

\* the item cell of row j is in no closed receipt and is not pending
ItemDropped(j) ==
    table[j].item # <<>> =>
        /\ \A k \in 1..Len(parser.receipts) :
              table[j].item[1] \notin Range(parser.receipts[k].items)
        /\ table[j].item[1] \notin Range(parser.table_items)

\* C7: every closed receipt is a real date/time, and a candidate whose key
\* is not one has produced an error diagnostic, is not among the closed
\* receipts, and none of its items is in a receipt or pending for one.
C7_OnlyRealDates ==
    /\ \A k \in 1..Len(parser.receipts) : IsValidDatetime(parser.receipts[k])
    /\ \A i \in KeyRows :
          (Flushed(i) /\ ~KeyIsValid(i)) =>
              /\ \E e \in Range(log) :
                    e.level = "error" /\ e.what = "invalid datetime"
                    /\ e.line = i
              /\ \A k \in 1..Len(parser.receipts) :
                    parser.receipts[k].line_number # i
              /\ \A j \in RowsOfKey(i) : ItemDropped(j)

-----------------------------------------------------------------------------
(* C8 (SpecRows) *)

\* this step pushes an empty row right after an empty row
SecondEmptyRowPushed ==
    /\ pc = "rows" /\ parser.is_last_empty
    /\ Len(table') = Len(table) + 1
    /\ IsEmptyRow(table'[Len(table')])

\* C8: the push of an empty row right after an empty row emits the
\* "consecutive empty row" warning for that row and changes nothing else of
\* the assembler, so result() returns what it returns without that row.
C8_SecondEmptyRowOnlyWarns ==
    [][SecondEmptyRowPushed =>
          /\ parser' = [parser EXCEPT !.logger = Append(@,
                           LogRecord("warning", "consective empty row", <<>>,
                                     line'.line_number))]
          /\ Result(parser').receipts = Result(parser).receipts
          /\ Result(parser').raised = Result(parser).raised]_vars

\* result() has returned a receipt for a table that ends on two empty rows,
\* and the warning names the second
C8_Witness ==
    /\ pc = "done" /\ Len(table) >= 3
    /\ IsEmptyRow(table[Len(table) - 1]) /\ IsEmptyRow(table[Len(table)])
    /\ results[1] # <<>>
    /\ LogRecord("warning", "consective empty row", <<>>, Len(table))
          \in Range(log)

-----------------------------------------------------------------------------
(* C9 (Spec) *)

\* C9 as claimed: after a line that follows a table-header line and is not
\* the alignment row, the scanner is in state 'outer' until a table-header
\* line is read.
C9_ReturnsToOuter == sinceBad => state = "outer"

\* this step reads, in state 'header', a line of the section that is not the
\* alignment row
UnexpectedRowRead ==
    /\ pc = "scan" /\ state = "header"
    /\ line' # line /\ in_section' = "yes"
    /\ line'.text # AlignmentText

\* C9 as amended: such a line emits the "unexpected row" error, leaves the
\* state 'header' and captures nothing; the scanner enters 'body' only from
\* 'header' on the exact alignment row, and rows are captured only in 'body'.
C9_StaysInHeader ==
    [][/\ UnexpectedRowRead =>
             /\ log' = Append(log, LogRecord("error", "unexpected row",
                                             line'.text, 0))
             /\ state' = "header"
             /\ tables' = tables /\ table' = table
       /\ (state' = "body" /\ state # "body") =>
             (state = "header" /\ line'.text = AlignmentText)
       /\ Len(table') > Len(table) => (state = "body" /\ state' = "body")
      ]_vars

\* after an unexpected row and no new table-header line, a later alignment
\* row has opened a table and a row has been captured
C9_Witness == sinceBad /\ pc = "scan" /\ state = "body" /\ table # <<>>

-----------------------------------------------------------------------------
(* C10 (SpecRows) *)

\* a row with a key and an item, then item-only rows, then an empty row
KeyItemsEmpty ==
    /\ Len(table) >= 2
    /\ table[1].key # <<>> /\ table[1].item # <<>>
    /\ \A i \in 2..(Len(table) - 1) :
          table[i].key = <<>> /\ table[i].item # <<>>
    /\ IsEmptyRow(table[Len(table)])

\* one receipt, with the key of row 1 and the item cells of all rows but the
\* last
OneReceiptOfTable ==
    /\ pc = "done"
    /\ Len(results[1]) = 1
    /\ results[1][1].day = table[1].key[1].day
    /\ results[1][1].hour = table[1].key[1].hour
    /\ results[1][1].minute = table[1].key[1].minute
    /\ results[1][1].store = table[1].key[1].store
    /\ results[1][1].items = [i \in 1..(Len(table) - 1) |-> table[i].item[1]]

\* the receipt of |15|09:30|Example Store|Widget|500| and ||||Gadget|300|
ExampleReceipt ==
    [year |-> year, month |-> month, day |-> 15, hour |-> 9, minute |-> 30,
     store |-> ExampleStore,
     items |-> <<[name |-> Widget, price |-> 500, line_number |-> 1],
                 [name |-> Gadget, price |-> 300, line_number |-> 2]>>,
     line_number |-> 1]

\* C10 as claimed: every such table yields exactly one receipt.
C10_OneReceipt == (TableOver /\ KeyItemsEmpty) => OneReceiptOfTable

\* C10 as amended: such a table whose key forms a real date/time with year
\* and month yields exactly one receipt, with the key's day, hour, minute and
\* store and the item cells in row order; the example rows yield day 15,
\* hour 9, minute 30, store "Example Store", items Widget 500, Gadget 300.
C10_OneReceiptIfRealDate ==
    /\ (TableOver /\ KeyItemsEmpty /\ KeyIsValid(1)) => OneReceiptOfTable
    /\ (TableOver /\ input = <<RowWidget, RowGadget, RowEmpty>>)
          => (pc = "done" /\ results[1] = <<ExampleReceipt>>)

\* result() has returned for the example rows
C10_Witness ==
    /\ pc = "done"
    /\ input = <<RowWidget, RowGadget, RowEmpty>>
    /\ KeyItemsEmpty /\ KeyIsValid(1)
    /\ Len(results[1]) = 1

-----------------------------------------------------------------------------
(* C11 (SpecRows) *)

\* receipt k of the closed list was built from the key of row i
ClosedFrom(i) ==
    {k \in 1..Len(parser.receipts) : parser.receipts[k].line_number = i}

\* C11: every candidate that has been flushed and whose key forms a real
\* date/time is among the closed receipts, whatever warnings its flush emits
\* and also when it has no items.
C11_ValidCandidateAppended ==
    \A i \in KeyRows : (Flushed(i) /\ KeyIsValid(i)) => ClosedFrom(i) # {}

-----------------------------------------------------------------------------
(* C12 (SpecRows) *)

\* the row before row i is an empty row; row 1 has no row before it
EmptyBefore(i) == i > 1 /\ IsEmptyRow(table[i - 1])

\* a warning of this kind was logged for the receipt of key row i
HasWarning(what, i) ==
    \E e \in Range(log) : e.level = "warning" /\ e.what = what /\ e.line = i

\* C12: for every closed receipt, "need an empty row before" was logged
\* exactly when the row before its key row was not empty and it is the first
\* receipt of the table or its day differs, greater or smaller, from the day
\* of the receipt closed before it; "need not an empty row before" exactly
\* when that row was empty and the day equals that of the receipt before it.
C12_SeparatorConvention ==
    \A k \in 1..Len(parser.receipts) :
        LET r == parser.receipts[k]
            dayDiffers == k = 1 \/ parser.receipts[k - 1].day # r.day
        IN /\ HasWarning("need an empty row before", r.line_number)
                <=> (dayDiffers /\ ~EmptyBefore(r.line_number))
           /\ HasWarning("need not an empty row before", r.line_number)
                <=> (~dayDiffers /\ EmptyBefore(r.line_number))

-----------------------------------------------------------------------------
(* C13 (SpecRows) *)

\* the date/time of the key of row i
KeyDatetime(i) ==
    [year |-> year, month |-> month, day |-> table[i].key[1].day,
     hour |-> table[i].key[1].hour, minute |-> table[i].key[1].minute]

\* the receipts closed before the candidate of row i was flushed
ClosedBefore(i) ==
    {k \in 1..Len(parser.receipts) : parser.receipts[k].line_number < i}

LastClosedBefore(i) ==
    parser.receipts[CHOOSE k \in ClosedBefore(i) :
                        \A l \in ClosedBefore(i) : l <= k]

\* C13: for every flushed candidate whose key forms a real date/time, the
\* "wrong order" warning was logged if and only if a receipt was closed
\* before it in this table and the last such receipt is strictly later.
C13_WrongOrderWarning ==
    \A i \in KeyRows :
        (Flushed(i) /\ KeyIsValid(i)) =>
            (HasWarning("wrong order", i)
                <=> /\ ClosedBefore(i) # {}
                    /\ DatetimeLess(KeyDatetime(i), LastClosedBefore(i)))

-----------------------------------------------------------------------------
(* C14 (SpecScan) *)

\* this step hands a line of the section to the scanner
LineScanned == pc = "scan" /\ line' # line /\ in_section' = "yes"

\* C14: in state 'header' a line that is not the alignment row, an empty
\* line included, emits the "unexpected row" error and leaves the state
\* 'header'; the alignment row moves the scanner to 'body' without an error,
\* and nothing else takes the scanner out of 'header'.
C14_OnlyAlignmentLeavesHeader ==
    [][/\ (LineScanned /\ state = "header") =>
             IF line'.text = AlignmentText
             THEN state' = "body" /\ log' = log
             ELSE /\ state' = "header"
                  /\ log' = Append(log, LogRecord("error", "unexpected row",
                                                  line'.text, 0))
       /\ (state = "header" /\ state' # "header") =>
             (LineScanned /\ line'.text = AlignmentText)
      ]_vars

\* the first table was opened by an alignment row read after an empty line
\* and a line of text, each of which gave the error in state 'header'
C14_Witness ==
    /\ pc = "scan" /\ state = "body" /\ tables = <<>>
    /\ LogRecord("error", "unexpected row", <<>>, 0) \in Range(log)
    /\ LogRecord("error", "unexpected row", TextMemo, 0) \in Range(log)

-----------------------------------------------------------------------------
(* C15 (SpecScan) *)

\* this step reads, in state 'body', a line that is not empty and that
\* parse_line rejects
BodyLineFails ==
    /\ LineScanned /\ state = "body"
    /\ line'.text # <<>> /\ ~RowMatches(line'.text)

\* C15: such a line closes the table with the rows captured so far and
\* without the line, and the scanner is in 'outer'; closed tables never
\* change; a row is captured only in 'body', 'body' is entered only from
\* 'header' on the alignment row and 'header' only from 'outer' on the
\* table-header line.
C15_FailedRowEndsTable ==
    [][/\ BodyLineFails =>
             /\ state' = "outer"
             /\ tables' = Append(tables, table)
             /\ table' = <<>>
       /\ IsPrefix(tables, tables')
       /\ table' # table =>
             \/ table' = <<>>
             \/ state = "body" /\ state' = "body"
                    /\ table' = Append(table, table'[Len(table')])
       /\ (state' = "body" /\ state # "body") =>
             (state = "header" /\ line'.text = AlignmentText)
       /\ (state' = "header" /\ state # "header") =>
             (state = "outer" /\ line'.text = HeaderText)
      ]_vars

\* a line that failed classification closed the first table right after its
\* last row, and a second table has a row, captured after a new table-header
\* line and alignment row
C15_Witness ==
    /\ pc = "scan" /\ state = "body" /\ table # <<>>
    /\ Len(tables) = 1 /\ tables[1] # <<>>
    /\ \E e \in Range(log) :
          /\ e.what = "failed to parse"
          /\ e.line = tables[1][Len(tables[1])].line_number + 1
          /\ e.line + 3 = table[1].line_number

-----------------------------------------------------------------------------
(* C16 (SpecScan) *)

\* the level of a heading line, 3 for level 3 or deeper; 0 for other lines
HeadingLevel(text) ==
    IF IsPrefix(<<"#", " ">>, text) THEN 1
    ELSE IF IsPrefix(<<"#", "#", " ">>, text) THEN 2
    ELSE IF IsPrefix(<<"#", "#", "#">>, text) THEN 3
    ELSE 0

\* C16: a line read before the section is entered is never captured; inside
\* the section a heading of level 1 or 2 ends the scanning for the whole
\* file, and a heading of level 3 or deeper or a line that is no heading
\* does not end the section.
C16_FirstSectionOnly ==
    [][/\ (in_section = "no" /\ line' # line) =>
             (tables' = tables /\ table' = table)
       /\ (in_section = "yes" /\ line' # line) =>
             IF HeadingLevel(line'.text) \in {1, 2}
             THEN in_section' = "ended" /\ pc' # "scan"
             ELSE in_section' = "yes" /\ pc' = "scan"
       /\ in_section = "ended" => line' = line
      ]_vars

-----------------------------------------------------------------------------
(* C17 (SpecScan) *)

\* C17: the section is entered only by a line whose text is exactly the
\* expenses heading.
C17_ExactHeadingOnly ==
    [][(in_section = "no" /\ in_section' = "yes") => line'.text = SectionText
      ]_vars

-----------------------------------------------------------------------------
(* C18 (SpecScan) *)

\* the number of '|' in a text
Pipes(text) == Cardinality({i \in 1..Len(text) : text[i] = "|"})

\* the whole text is one key group followed by one item group: the two
\* groups have three '|' each and the item group ends on one
IsWholeRow(text) ==
    RowMatches(text) /\ Pipes(text) = 6 /\ text[Len(text)] = "|"

\* C18: in state 'body' a line that is not, as a whole, a key group followed
\* by an item group is not captured as a row: the error diagnostic is
\* emitted and the table is closed.
C18_WholeLineOnly ==
    [][(LineScanned /\ state = "body" /\ line'.text # <<>>
            /\ ~IsWholeRow(line'.text)) =>
          /\ table' = <<>> /\ tables' = Append(tables, table)
          /\ state' = "outer"
          /\ log' = Append(log, LogRecord("error", "failed to parse",
                                          line'.text, line'.line_number))
      ]_vars

-----------------------------------------------------------------------------
(* C19 (SpecRows) *)

\* every row was pushed and result() was called
ResultCalled == TableOver /\ ri = Len(table)

\* C19: result() returns the closed receipts, also when there are none, with
\* the pending receipt flushed, and "need an empty row after" was logged
\* exactly when the last pushed row was not an empty row.
C19_ResultReturns ==
    ResultCalled =>
        /\ pc = "done"
        /\ results = <<parser.receipts>>
        /\ parser.table_key = <<>>
        /\ table # <<>> =>
              ((\E e \in Range(log) : e.what = "need an empty row after")
                  <=> ~IsEmptyRow(table[Len(table)]))

-----------------------------------------------------------------------------
(* C20 (SpecRows) *)

\* C20: a push or result() leaves the closed receipts it found as a prefix
\* of the list, unchanged, and appends at most one receipt, whose items are
\* the pending items; the pending items start afresh, from the pushed row.
C20_AppendOnly ==
    [][/\ IsPrefix(parser.receipts, parser'.receipts)
       /\ Len(parser'.receipts) <= Len(parser.receipts) + 1
       /\ Len(parser'.receipts) > Len(parser.receipts) =>
             /\ parser'.receipts[Len(parser'.receipts)].items
                    = parser.table_items
             /\ parser'.table_items
                    = IF line' # line THEN table'[Len(table')].item ELSE <<>>
      ]_vars

\* result() has returned two receipts with items; the second was closed by a
\* push that started the pending items of a third
C20_Witness ==
    /\ pc = "done" /\ Len(results[1]) >= 3
    /\ \A k \in 1..Len(results[1]) : results[1][k].items # <<>>

-----------------------------------------------------------------------------
(* C21 (SpecRows) *)

\* C21: in every receipt result() returns, the items are on consecutive
\* rows from the key row on: item i, counted from 1, has line number
\* line_number + i - 1, so last_line_number is the line of the last item.
C21_RowAlignment ==
    pc = "done" =>
        \A k \in 1..Len(results[1]) :
            LET r == results[1][k]
            IN r.items # <<>> =>
                  /\ \A i \in 1..Len(r.items) :
                        r.items[i].line_number = r.line_number + i - 1
                  /\ LastLineNumber(r) = r.items[Len(r.items)].line_number

-----------------------------------------------------------------------------
(* C23 (SpecRows) *)

\* C23: after every push, items are pending only while a key is pending,
\* and after the push of an empty row no key and no item is pending.
C23_ItemsOnlyWithKey ==
    pc = "rows" =>
        /\ parser.table_items # <<>> => parser.table_key # <<>>
        /\ parser.is_last_empty =>
              (parser.table_key = <<>> /\ parser.table_items = <<>>)

-----------------------------------------------------------------------------
(* C22 (Spec) *)

\* an assembler that has seen no row and logged nothing
Untouched ==
    [year |-> year, month |-> month, logger |-> <<>>, receipts |-> <<>>,
     is_last_empty |-> FALSE, is_before_key_empty |-> FALSE,
     table_key |-> <<>>, table_items |-> <<>>, raised |-> FALSE]

RECURSIVE PushAll(_, _)
\* the assembler p after the rows have been pushed, in order
PushAll(p, rows) ==
    IF rows = <<>> THEN p
    ELSE Push(PushAll(p, SubSeq(rows, 1, Len(rows) - 1)), rows[Len(rows)])

IsSuffix(t, s) ==
    Len(t) <= Len(s) /\ SubSeq(s, Len(s) - Len(t) + 1, Len(s)) = t

\* the assembler of the current table is in the state q, up to the
\* diagnostics logged before the table, which it has left as they were
SameAsAlone(q) ==
    /\ [parser EXCEPT !.logger = <<>>] = [q EXCEPT !.logger = <<>>]
    /\ IsSuffix(q.logger, parser.logger)

\* C22: the assembler of a table is, after each push, in the state of an
\* assembler that was given the rows of this table alone, and has logged
\* what that one logs; the receipts result() returns for a table and the
\* diagnostics of the table are those of the table alone.
C22_ScopedToTable ==
    /\ pc = "rows" =>
          SameAsAlone(PushAll(Untouched, SubSeq(tables[ti], 1, ri)))
    /\ \A k \in 1..Len(results) :
          results[k] = Result(PushAll(Untouched, tables[k])).receipts
    /\ (pc \in {"tables", "done"} /\ results # <<>>) =>
          IsSuffix(Result(PushAll(Untouched, tables[Len(results)])).logger,
                   log)

\* parse_payment has returned for two tables; the first receipt of the
\* second is earlier than the last of the first, on the same day and with no
\* empty row before it: "need an empty row before" was logged for it and
\* "wrong order" for none
C22_Witness ==
    /\ pc = "done" /\ Len(results) = 2
    /\ results[1] # <<>> /\ results[2] # <<>>
    /\ DatetimeLess(results[2][1], results[1][Len(results[1])])
    /\ results[2][1].day = results[1][Len(results[1])].day
    /\ \A e \in Range(log) : e.what # "wrong order"
    /\ \E e \in Range(log) :
          /\ e.what = "need an empty row before"
          /\ e.line = results[2][1].line_number

=============================================================================
